---- MODULE Spec2Model ----
(***************************************************************************)
(* MutableList<T> of mutable_chain.cpp: a doubly-linked list whose links   *)
(* go through one-slot Ref cells, so that erase() rewrites the content of  *)
(* two existing cells and iterators standing on the erased node or on its  *)
(* neighbours keep working.                                                *)
(*                                                                         *)
(* The heap is explicit: nodes are numbered 1..Len(next) in allocation     *)
(* order, Ref cells 1..Len(ptr) in allocation order.                       *)
(***************************************************************************)
EXTENDS Integers, Sequences, FiniteSets, TLC

\* ------------------------------------------------------------------ bounds
MaxPush == 3        \* ordinary nodes ever allocated by push_back/push_front
MaxClear == 1       \* calls of clear()
MaxLen  == 3        \* length of the initializer list of the traversal loops
MaxExtra == 1       \* pushes on the two lists after a copy or a move

\* --------------------------------------------------------------- constants
NULL == 0           \* an empty shared_ptr (ListNode::next / prev of a fresh node)
DefaultValue == ""  \* std::string(): the value a sentinel node is constructed with

\* What ret holds when the last call returned no element value.
NoValue == "(none)"

\* The element values of main, continued.
Data == <<"data1!", "data2!", "data3!", "data4!", "data5!", "data6!">>

Vals      == {Data[k] : k \in 1..MaxLen}
Iterators == {1, 2}

VARIABLES
    next,     \* next[n]  : the Ref cell node n holds in ListNode::next, or NULL
    prev,     \* prev[n]  : the Ref cell node n holds in ListNode::prev, or NULL
    ptr,      \* ptr[r]   : Ref::ptr of cell r, a node
    value,    \* value[n] : ListNode::value
    head_,    \* MutableList::head_
    tail_,    \* MutableList::tail_
    size_,    \* MutableList::size_ (size_t; kept as the representative of its
              \* residue class closest to 0, so that 0 - 1 reads -1)
    cur,      \* cur[i]   : IteratorImpl::current_ of iterator i
    outcome,  \* how the last call ended: "ok", or what undefined behaviour did
    ret,      \* the value the last operator* returned, NoValue after other calls
    pc,       \* position of the traversal loop of main
    P,        \* the values the loop's predicate selects for erasure
    style,    \* which loop is run
    clears,   \* calls of clear() so far
    orig,     \* the nodes of the list when the loop started, in order
    visited,  \* the nodes the forward loop body has run on, in order
    rvisited, \* the nodes the reverse loop body has run on, in order
    other     \* head_, tail_ and size_ of a second MutableList on the same
              \* heap, NoList while the program has only one list

heap  == <<next, prev, ptr, value>>
list  == <<head_, tail_, size_, other>>
loop  == <<pc, P, style, orig, visited, rvisited>>
vars  == <<next, prev, ptr, value, head_, tail_, size_, cur, outcome, ret,
           clears, pc, P, style, orig, visited, rvisited, other>>

\* The list and its heap as one value, so that member functions compose.
S == [next |-> next, prev |-> prev, ptr |-> ptr, value |-> value,
      head_ |-> head_, tail_ |-> tail_, size_ |-> size_]

\* No second list.
NoList == [head_ |-> NULL, tail_ |-> NULL, size_ |-> 0]

\* ------------------------------------------------------------- allocation
\* std::make_shared<Node>(v): a node with both links empty.
make_node(s, v) ==
    [s EXCEPT !.next = Append(@, NULL), !.prev = Append(@, NULL),
              !.value = Append(@, v)]

\* The node make_node has just returned.
newest(s) == Len(s.next)

\* MutableList::makeSentinel: a node holding T().
makeSentinel(s) == make_node(s, DefaultValue)

\* link installing one cell in both a->next and b->prev.
link_shared_cell(s, a, b) ==
    LET r1 == Len(s.ptr) + 1
    IN  [s EXCEPT !.ptr  = Append(@, b),
                  !.next = [n \in DOMAIN @ |-> IF n = a THEN r1 ELSE @[n]],
                  !.prev = [n \in DOMAIN @ |-> IF n = b THEN r1 ELSE @[n]]]

\* MutableList::link: two NEW Ref cells, installed in a->next and b->prev
\* (a and b are nodes).
link(s, a, b) ==
    LET r1 == Len(s.ptr) + 1
        r2 == Len(s.ptr) + 2
    IN  [s EXCEPT !.ptr  = Append(Append(@, b), a),
                  !.next = [n \in DOMAIN @ |-> IF n = a THEN r1 ELSE @[n]],
                  !.prev = [n \in DOMAIN @ |-> IF n = b THEN r2 ELSE @[n]]]

\* --------------------------------------------------------------- reading
\* n->next->ptr and n->prev->ptr. A read through an empty shared_ptr is
\* undefined; here it yields NULL, and the steps that can make one decide
\* what the undefined behaviour does.
next_ptr(s, n) ==
    IF n = NULL THEN NULL
    ELSE IF s.next[n] = NULL THEN NULL ELSE s.ptr[s.next[n]]
prev_ptr(s, n) ==
    IF n = NULL THEN NULL
    ELSE IF s.prev[n] = NULL THEN NULL ELSE s.ptr[s.prev[n]]

\* n->next->ptr = m and n->prev->ptr = m: the content of an existing cell is
\* overwritten. A write through an empty shared_ptr changes no cell.
set_next_ptr(s, n, m) ==
    IF n = NULL THEN s
    ELSE IF s.next[n] = NULL THEN s ELSE [s EXCEPT !.ptr[s.next[n]] = m]
set_prev_ptr(s, n, m) ==
    IF n = NULL THEN s
    ELSE IF s.prev[n] = NULL THEN s ELSE [s EXCEPT !.ptr[s.prev[n]] = m]

\* MutableList::begin / end.
begin(s) == next_ptr(s, s.head_)
end(s)   == s.tail_

\* MutableList::empty / size.
empty(s) == s.size_ = 0
size(s)  == s.size_

\* The nodes met by following next cells from n up to (excluding) the tail
\* sentinel; k bounds the walk, which stops early at an empty link.
RECURSIVE walk_forward(_, _, _)
walk_forward(s, n, k) ==
    IF k = 0 \/ next_ptr(s, n) = NULL THEN <<>>
    ELSE LET m == next_ptr(s, n)
         IN  IF m = s.tail_ THEN <<>> ELSE <<m>> \o walk_forward(s, m, k - 1)

\* The nodes met by following prev cells from n up to (excluding) the head
\* sentinel.
RECURSIVE walk_backward(_, _, _)
walk_backward(s, n, k) ==
    IF k = 0 \/ prev_ptr(s, n) = NULL THEN <<>>
    ELSE LET m == prev_ptr(s, n)
         IN  IF m = s.head_ THEN <<>> ELSE <<m>> \o walk_backward(s, m, k - 1)

\* for (auto it = begin(); it != end(); ++it): the nodes of the list in order.
forward_nodes(s)  == walk_forward(s, s.head_, Len(s.next))
\* for (auto it = rbegin(); it != rend(); ++it): the nodes in reverse order.
backward_nodes(s) == walk_backward(s, s.tail_, Len(s.next))

values_of(s, ns) == [i \in 1..Len(ns) |-> s.value[ns[i]]]
Range(f)   == {f[i] : i \in DOMAIN f}
Reverse(q) == [i \in 1..Len(q) |-> q[Len(q) + 1 - i]]

\* A node is attached when the forward traversal of the list meets it.
attached(s, n)  == n \in Range(forward_nodes(s))
sentinel(s, n)  == n \in {s.head_, s.tail_}

\* ---------------------------------------------------------- construction
\* The heap before anything is allocated.
no_heap ==
    [next |-> <<>>, prev |-> <<>>, ptr |-> <<>>, value |-> <<>>,
     head_ |-> NULL, tail_ |-> NULL, size_ |-> 0]

\* MutableList(): two sentinels linked to each other.
MutableList(s) ==
    LET s1 == makeSentinel(s)
        h  == newest(s1)
        s2 == makeSentinel(s1)
        t  == newest(s2)
    IN  link([s2 EXCEPT !.head_ = h, !.tail_ = t, !.size_ = 0], h, t)

\* ------------------------------------------------------------- modifiers
\* clear that unlinks the elements one by one, first to last, as erase does.
RECURSIVE clear_by_erasing(_)
clear_by_erasing(s) ==
    IF next_ptr(s, s.head_) \in {s.tail_, NULL} THEN [s EXCEPT !.size_ = 0]
    ELSE LET succ == next_ptr(s, next_ptr(s, s.head_))
             s1   == set_next_ptr(s, s.head_, succ)
             s2   == set_prev_ptr(s1, succ, s.head_)
         IN  clear_by_erasing(s2)

\* MutableList::clear.
clear(s) == [link(s, s.head_, s.tail_) EXCEPT !.size_ = 0]

\* emplace_back reading tail_->prev->ptr only after tail_ is relinked.
emplace_back_late_link(s, v) ==
    LET s1   == make_node(s, v)
        node == newest(s1)
        s2   == link(s1, node, s1.tail_)
        lst  == prev_ptr(s2, s2.tail_)
        s3   == link(s2, lst, node)
    IN  [s3 EXCEPT !.size_ = @ + 1]

\* MutableList::emplace_back / push_back.
emplace_back(s, v) ==
    LET s1   == make_node(s, v)
        node == newest(s1)
        lst  == prev_ptr(s1, s1.tail_)
        s2   == link(s1, lst, node)
        s3   == link(s2, node, s2.tail_)
    IN  [s3 EXCEPT !.size_ = @ + 1]

\* emplace_front without ++size_.
emplace_front_keeps_size(s, v) ==
    LET s1    == make_node(s, v)
        node  == newest(s1)
        first == next_ptr(s1, s1.head_)
        s2    == link(s1, s1.head_, node)
    IN  link(s2, node, first)

\* emplace_front reading head_->next->ptr only after head_ is relinked.
emplace_front_late_read(s, v) ==
    LET s1    == make_node(s, v)
        node  == newest(s1)
        s2    == link(s1, s1.head_, node)
        first == next_ptr(s2, s2.head_)
        s3    == link(s2, node, first)
    IN  [s3 EXCEPT !.size_ = @ + 1]

\* MutableList::emplace_front / push_front.
emplace_front(s, v) ==
    LET s1    == make_node(s, v)
        node  == newest(s1)
        first == next_ptr(s1, s1.head_)
        s2    == link(s1, s1.head_, node)
        s3    == link(s2, node, first)
    IN  [s3 EXCEPT !.size_ = @ + 1]

\* erase returning an iterator to the erased node instead of its successor.
erase_returns_erased(s, node) ==
    LET pred == prev_ptr(s, node)
        succ == next_ptr(s, node)
        s1   == set_next_ptr(s, pred, succ)
        s2   == set_prev_ptr(s1, succ, pred)
    IN  [s |-> [s2 EXCEPT !.size_ = @ - 1], ret |-> node]

\* erase without --size_.
erase_keeps_size(s, node) ==
    LET pred == prev_ptr(s, node)
        succ == next_ptr(s, node)
        s1   == set_next_ptr(s, pred, succ)
        s2   == set_prev_ptr(s1, succ, pred)
    IN  [s |-> s2, ret |-> succ]

\* erase without the write to succ->prev->ptr.
erase_forward_only(s, node) ==
    LET pred == prev_ptr(s, node)
        succ == next_ptr(s, node)
        s1   == set_next_ptr(s, pred, succ)
    IN  [s |-> [s1 EXCEPT !.size_ = @ - 1], ret |-> succ]

\* erase without the write to pred->next->ptr.
erase_backward_only(s, node) ==
    LET pred == prev_ptr(s, node)
        succ == next_ptr(s, node)
        s2   == set_prev_ptr(s, succ, pred)
    IN  [s |-> [s2 EXCEPT !.size_ = @ - 1], ret |-> succ]

\* erase joining pred and succ with link(), that is with two new cells.
erase_relinks(s, node) ==
    LET pred == prev_ptr(s, node)
        succ == next_ptr(s, node)
        s1   == link(s, pred, succ)
    IN  [s |-> [s1 EXCEPT !.size_ = @ - 1], ret |-> succ]

\* erase returning an iterator to the predecessor of the erased node.
erase_returns_pred(s, node) ==
    LET pred == prev_ptr(s, node)
        succ == next_ptr(s, node)
        s1   == set_next_ptr(s, pred, succ)
        s2   == set_prev_ptr(s1, succ, pred)
    IN  [s |-> [s2 EXCEPT !.size_ = @ - 1], ret |-> pred]

\* erase that also makes the erased node's own cells lead to the node itself.
erase_resets_own_links(s, node) ==
    LET pred == prev_ptr(s, node)
        succ == next_ptr(s, node)
        s1   == set_next_ptr(s, pred, succ)
        s2   == set_prev_ptr(s1, succ, pred)
        s3   == set_next_ptr(s2, node, node)
        s4   == set_prev_ptr(s3, node, node)
    IN  [s |-> [s4 EXCEPT !.size_ = @ - 1], ret |-> succ]

\* erase that redirects every cell leading to the erased node, those of
\* nodes out of the list included.
erase_redirects_all(s, node) ==
    LET pred == prev_ptr(s, node)
        succ == next_ptr(s, node)
        fwd(r) == \E m \in DOMAIN s.next : s.next[m] = r
        s1   == [s EXCEPT !.ptr = [r \in DOMAIN @ |->
                                     IF @[r] # node THEN @[r]
                                     ELSE IF fwd(r) THEN succ ELSE pred]]
    IN  [s |-> [s1 EXCEPT !.size_ = @ - 1], ret |-> succ]

\* MutableList::erase(iterator pos), pos.node() = node: the new list and the
\* node of the iterator it returns.
erase(s, node) ==
    LET pred == prev_ptr(s, node)
        succ == next_ptr(s, node)
        s1   == set_next_ptr(s, pred, succ)
        s2   == set_prev_ptr(s1, succ, pred)
    IN  [s |-> [s2 EXCEPT !.size_ = @ - 1], ret |-> succ]

\* erase_node without --size_.
erase_node_keeps_size(s, node) ==
    LET pred == prev_ptr(s, node)
        succ == next_ptr(s, node)
        s1   == set_next_ptr(s, pred, succ)
    IN  set_prev_ptr(s1, succ, pred)

\* MutableList::erase_node(const NodePtr& node): the new list; nothing is
\* returned.
erase_node(s, node) ==
    LET pred == prev_ptr(s, node)
        succ == next_ptr(s, node)
        s1   == set_next_ptr(s, pred, succ)
        s2   == set_prev_ptr(s1, succ, pred)
    IN  [s2 EXCEPT !.size_ = @ - 1]

\* The empty shared_ptrs erase(pos) dereferences: node->prev, node->next,
\* pred->next, succ->prev.
erase_reads_null(s, node) ==
    \/ s.prev[node] = NULL
    \/ s.next[node] = NULL
    \/ s.next[prev_ptr(s, node)] = NULL
    \/ s.prev[next_ptr(s, node)] = NULL

\* pop_back without the test of empty().
pop_back_unchecked(s) == erase(s, prev_ptr(s, s.tail_)).s

\* MutableList::pop_back / pop_front.
pop_back(s)  == IF ~empty(s) THEN erase(s, prev_ptr(s, s.tail_)).s ELSE s
pop_front(s) == IF ~empty(s) THEN erase(s, begin(s)).s ELSE s

\* The initializer-list loop calling push_front instead of push_back.
RECURSIVE push_all_front(_, _)
push_all_front(s, init) ==
    IF init = <<>> THEN s
    ELSE push_all_front(emplace_front(s, Head(init)), Tail(init))

\* MutableList(std::initializer_list<T>): push_back of each value in order.
RECURSIVE push_all(_, _)
push_all(s, init) ==
    IF init = <<>> THEN s
    ELSE push_all(emplace_back(s, Head(init)), Tail(init))

MutableList_init(s, init) == push_all(MutableList(s), init)

\* ------------------------------------------------------------------ state
\* The process runs until a call with undefined behaviour ends the run.
Running == outcome = "ok"

\* The list and its heap are s, and there is no second list.
Holds(s) ==
    /\ next  = s.next
    /\ prev  = s.prev
    /\ ptr   = s.ptr
    /\ value = s.value
    /\ head_ = s.head_
    /\ tail_ = s.tail_
    /\ size_ = s.size_
    /\ other = NoList

\* The list and its heap become s; a second list keeps its three fields.
Install(s) ==
    /\ next'  = s.next
    /\ prev'  = s.prev
    /\ ptr'   = s.ptr
    /\ value' = s.value
    /\ head_' = s.head_
    /\ tail_' = s.tail_
    /\ size_' = s.size_
    /\ other' = other

Nodes == 1..Len(next)

\* No traversal loop is running: the client calls the list directly.
NoLoop ==
    /\ pc = "idle"
    /\ P = {}
    /\ style = "none"
    /\ orig = <<>>
    /\ visited = <<>>
    /\ rvisited = <<>>

\* MutableList<T> list;  iterator it1 = list.begin(), it2 = list.begin();
Init ==
    /\ Holds(MutableList(no_heap))
    /\ cur = [i \in Iterators |-> begin(MutableList(no_heap))]
    /\ outcome = "ok"
    /\ ret = NoValue
    /\ clears = 0
    /\ NoLoop

\* --------------------------------------------------- steps of the client
\* list.push_back(v)
PushBack(v) ==
    /\ Running /\ pc = "idle"
    /\ Len(next) < 2 + MaxPush
    /\ Install(emplace_back(S, v))
    /\ ret' = NoValue
    /\ UNCHANGED <<cur, outcome, clears, loop>>

\* list.push_front(v)
PushFront(v) ==
    /\ Running /\ pc = "idle"
    /\ Len(next) < 2 + MaxPush
    /\ Install(emplace_front(S, v))
    /\ ret' = NoValue
    /\ UNCHANGED <<cur, outcome, clears, loop>>

\* list.pop_back()
PopBack ==
    /\ Running /\ pc = "idle"
    /\ Install(pop_back(S))
    /\ ret' = NoValue
    /\ UNCHANGED <<cur, outcome, clears, loop>>

\* list.pop_front()
PopFront ==
    /\ Running /\ pc = "idle"
    /\ Install(pop_front(S))
    /\ ret' = NoValue
    /\ UNCHANGED <<cur, outcome, clears, loop>>

\* list.clear()
Clear ==
    /\ Running /\ pc = "idle"
    /\ clears < MaxClear
    /\ Install(clear(S))
    /\ clears' = clears + 1
    /\ ret' = NoValue
    /\ UNCHANGED <<cur, outcome, loop>>

\* it = list.begin()
Begin(i) ==
    /\ Running /\ pc = "idle"
    /\ cur' = [cur EXCEPT ![i] = begin(S)]
    /\ ret' = NoValue
    /\ UNCHANGED <<heap, list, outcome, clears, loop>>

\* it = list.end()
End(i) ==
    /\ Running /\ pc = "idle"
    /\ cur' = [cur EXCEPT ![i] = end(S)]
    /\ ret' = NoValue
    /\ UNCHANGED <<heap, list, outcome, clears, loop>>

\* IteratorImpl::operator++ on a node that has a next cell.
increment(s, n) == next_ptr(s, n)
\* IteratorImpl::operator-- on a node that has a prev cell.
decrement(s, n) == prev_ptr(s, n)
\* IteratorImpl::operator*: the value field of the node, whichever node it is.
dereference(s, n) == s.value[n]

\* ++it, the iterator not on the tail sentinel
Advance(i) ==
    /\ Running /\ pc = "idle"
    /\ next[cur[i]] # NULL
    /\ cur' = [cur EXCEPT ![i] = increment(S, cur[i])]
    /\ ret' = NoValue
    /\ UNCHANGED <<heap, list, outcome, clears, loop>>

\* --it, the iterator not on the head sentinel
Retreat(i) ==
    /\ Running /\ pc = "idle"
    /\ prev[cur[i]] # NULL
    /\ cur' = [cur EXCEPT ![i] = decrement(S, cur[i])]
    /\ ret' = NoValue
    /\ UNCHANGED <<heap, list, outcome, clears, loop>>

\* list.erase(it), the result discarded, the iterator on an attached element
Erase(i) ==
    /\ Running /\ pc = "idle"
    /\ attached(S, cur[i])
    /\ Install(erase(S, cur[i]).s)
    /\ ret' = NoValue
    /\ UNCHANGED <<cur, outcome, clears, loop>>

\* it = list.erase(it), the iterator on an attached element
EraseAssign(i) ==
    /\ Running /\ pc = "idle"
    /\ attached(S, cur[i])
    /\ Install(erase(S, cur[i]).s)
    /\ cur' = [cur EXCEPT ![i] = erase(S, cur[i]).ret]
    /\ ret' = NoValue
    /\ UNCHANGED <<outcome, clears, loop>>

\* list.erase_node(it.node()), the iterator on an attached element
EraseNode(i) ==
    /\ Running /\ pc = "idle"
    /\ attached(S, cur[i])
    /\ Install(erase_node(S, cur[i]))
    /\ ret' = NoValue
    /\ UNCHANGED <<cur, outcome, clears, loop>>

\* The k-th element pushed holds the k-th value.
fresh_value == Data[Len(next) - 1]

Next ==
    \/ \E v \in {fresh_value} : PushBack(v)
    \/ \E v \in {fresh_value} : PushFront(v)
    \/ PopBack
    \/ PopFront
    \/ Clear
    \/ \E i \in Iterators : Begin(i)
    \/ \E i \in Iterators : End(i)
    \/ \E i \in Iterators : Advance(i)
    \/ \E i \in Iterators : Retreat(i)
    \/ \E i \in Iterators : Erase(i)
    \/ \E i \in Iterators : EraseAssign(i)
    \/ \E i \in Iterators : EraseNode(i)

\* Every sequence of valid calls on one list with two iterators.
Spec == Init /\ [][Next]_vars

\* ------------------------------------------- calls on a sentinel
\* erase(pos) read as it runs when a shared_ptr it dereferences is empty and
\* the read through it yields the node g.
erase_reading(s, node, g) ==
    LET pred == IF s.prev[node] = NULL THEN g ELSE prev_ptr(s, node)
        succ == IF s.next[node] = NULL THEN g ELSE next_ptr(s, node)
        s1   == set_next_ptr(s, pred, succ)
        s2   == set_prev_ptr(s1, succ, pred)
    IN  [s |-> [s2 EXCEPT !.size_ = @ - 1], ret |-> succ]

\* list.erase(it), the iterator on head_ or tail_ (list.erase(list.end())).
\* erase dereferences the empty prev of head_ or the empty next of tail_:
\* undefined behaviour, which ends the process with a segmentation fault or
\* lets the read yield some node and the call complete.
EraseSentinel(i) ==
    /\ Running /\ pc = "idle"
    /\ sentinel(S, cur[i])
    /\ \/ /\ outcome' = "SIGSEGV"
          /\ UNCHANGED <<heap, list>>
       \/ \E g \in Nodes :
            /\ outcome' = "garbage"
            /\ Install(erase_reading(S, cur[i], g).s)
    /\ ret' = NoValue
    /\ UNCHANGED <<cur, clears, loop>>

\* *it, wherever the iterator is: operator* makes no check.
Deref(i) ==
    /\ Running /\ pc = "idle"
    /\ ret' = dereference(S, cur[i])
    /\ UNCHANGED <<heap, list, cur, outcome, clears, loop>>

\* MutableList::front / back: the value field of the node head_->next or
\* tail_->prev leads to, with no test of empty().
front(s) == s.value[next_ptr(s, s.head_)]
back(s)  == s.value[prev_ptr(s, s.tail_)]

\* list.front(), the list empty or not
Front ==
    /\ Running /\ pc = "idle"
    /\ ret' = front(S)
    /\ UNCHANGED <<heap, list, cur, outcome, clears, loop>>

\* list.back(), the list empty or not
Back ==
    /\ Running /\ pc = "idle"
    /\ ret' = back(S)
    /\ UNCHANGED <<heap, list, cur, outcome, clears, loop>>

\* ++it, the iterator on the tail sentinel: current_->next is an empty
\* shared_ptr and operator++ reads through it. Undefined behaviour, which
\* ends the process with a segmentation fault or leaves the iterator on
\* whatever the read yields.
AdvanceAtTail(i) ==
    /\ Running /\ pc = "idle"
    /\ next[cur[i]] = NULL
    /\ \/ /\ outcome' = "SIGSEGV"
          /\ UNCHANGED cur
       \/ \E g \in Nodes :
            /\ outcome' = "garbage"
            /\ cur' = [cur EXCEPT ![i] = g]
    /\ ret' = NoValue
    /\ UNCHANGED <<heap, list, clears, loop>>

\* --it, the iterator on the head sentinel: current_->prev is empty.
RetreatAtHead(i) ==
    /\ Running /\ pc = "idle"
    /\ prev[cur[i]] = NULL
    /\ \/ /\ outcome' = "SIGSEGV"
          /\ UNCHANGED cur
       \/ \E g \in Nodes :
            /\ outcome' = "garbage"
            /\ cur' = [cur EXCEPT ![i] = g]
    /\ ret' = NoValue
    /\ UNCHANGED <<heap, list, clears, loop>>

MisuseNext ==
    \/ Next
    \/ \E i \in Iterators : EraseSentinel(i)
    \/ \E i \in Iterators : Deref(i)
    \/ Front
    \/ Back
    \/ \E i \in Iterators : AdvanceAtTail(i)
    \/ \E i \in Iterators : RetreatAtHead(i)

\* The calls of Spec and the calls the list does not guard against.
MisuseSpec == Init /\ [][MisuseNext]_vars

\* ------------------------------------------------ the traversal loops
\* The loops that erase while they iterate:
\*   "discard":  for (it = begin(); it != end(); ++it)
\*                   if (P(*it)) list.erase(it);
\*   "returned": for (it = begin(); it != end(); )
\*                   if (P(*it)) it = list.erase(it); else ++it;
\*   "readme":   for (it = begin(); it != end(); ++it)
\*                   if (P(*it)) { it = list.erase(it); --it; }
\* each followed by main's
\*   for (rit = rbegin(); rit != rend(); ++rit) print(*rit);
\* Iterator 1 is it; iterator 2 is rit.base().
Styles == {"discard", "returned", "readme"}

\* The initializer lists of at most MaxLen values.
Inits == UNION {[1..n -> Vals] : n \in 0..MaxLen}

\* MutableList<std::string> list{...};  it = list.begin();
LoopInit ==
    \E init \in Inits : \E p \in SUBSET Vals : \E st \in Styles :
        LET s == MutableList_init(no_heap, init)
        IN  /\ Holds(s)
            /\ cur = [i \in Iterators |-> begin(s)]
            /\ outcome = "ok"
            /\ ret = NoValue
            /\ clears = 0
            /\ pc = "test"
            /\ P = p
            /\ style = st
            /\ orig = forward_nodes(s)
            /\ visited = <<>>
            /\ rvisited = <<>>

\* it != list.end()
LoopTest ==
    /\ Running /\ pc = "test"
    /\ pc' = IF cur[1] # end(S) THEN "body" ELSE "rbegin"
    /\ UNCHANGED <<heap, list, cur, outcome, ret, clears, P, style, orig,
                   visited, rvisited>>

\* The loop body on an element the predicate rejects.
LoopKeep ==
    /\ Running /\ pc = "body"
    /\ dereference(S, cur[1]) \notin P
    /\ visited' = Append(visited, cur[1])
    /\ ret' = dereference(S, cur[1])
    /\ pc' = "inc"
    /\ UNCHANGED <<heap, list, cur, outcome, clears, P, style, orig, rvisited>>

\* The loop body on an element the predicate selects: list.erase(it); in the
\* "returned" loop it = the iterator erase returns, with no ++it; in the
\* "readme" loop it = the iterator erase returns, then --it.
LoopErase ==
    /\ Running /\ pc = "body"
    /\ dereference(S, cur[1]) \in P
    /\ visited' = Append(visited, cur[1])
    /\ ret' = dereference(S, cur[1])
    /\ IF erase_reads_null(S, cur[1])
       THEN /\ outcome' = "SIGSEGV"
            /\ UNCHANGED <<heap, list, cur, pc>>
       ELSE /\ Install(erase(S, cur[1]).s)
            /\ cur' = IF style \in {"returned", "readme"}
                      THEN [cur EXCEPT ![1] = erase(S, cur[1]).ret]
                      ELSE cur
            /\ pc' = CASE style = "returned" -> "test"
                        [] style = "readme"   -> "dec"
                        [] OTHER              -> "inc"
            /\ UNCHANGED outcome
    /\ UNCHANGED <<clears, P, style, orig, rvisited>>

\* --it, after it = list.erase(it) in the "readme" loop
LoopDec ==
    /\ Running /\ pc = "dec"
    /\ IF prev[cur[1]] = NULL
       THEN /\ outcome' = "SIGSEGV"
            /\ UNCHANGED <<cur, pc>>
       ELSE /\ cur' = [cur EXCEPT ![1] = decrement(S, cur[1])]
            /\ pc' = "inc"
            /\ UNCHANGED outcome
    /\ UNCHANGED <<heap, list, ret, clears, P, style, orig, visited, rvisited>>

\* ++it
LoopInc ==
    /\ Running /\ pc = "inc"
    /\ IF next[cur[1]] = NULL
       THEN /\ outcome' = "SIGSEGV"
            /\ UNCHANGED <<cur, pc>>
       ELSE /\ cur' = [cur EXCEPT ![1] = increment(S, cur[1])]
            /\ pc' = "test"
            /\ UNCHANGED outcome
    /\ UNCHANGED <<heap, list, ret, clears, P, style, orig, visited, rvisited>>

\* rit = list.rbegin(): reverse_iterator(end())
RBegin ==
    /\ Running /\ pc = "rbegin"
    /\ cur' = [cur EXCEPT ![2] = end(S)]
    /\ pc' = "rtest"
    /\ UNCHANGED <<heap, list, outcome, ret, clears, P, style, orig, visited,
                   rvisited>>

\* rit != list.rend(): rit.base() != begin()
RTest ==
    /\ Running /\ pc = "rtest"
    /\ pc' = IF cur[2] # begin(S) THEN "rbody" ELSE "done"
    /\ UNCHANGED <<heap, list, cur, outcome, ret, clears, P, style, orig,
                   visited, rvisited>>

\* *rit, which is *--tmp for a copy tmp of rit.base(); then ++rit, which is
\* --base.
RBody ==
    /\ Running /\ pc = "rbody"
    /\ IF prev[cur[2]] = NULL
       THEN /\ outcome' = "SIGSEGV"
            /\ UNCHANGED <<cur, pc, ret, rvisited>>
       ELSE /\ rvisited' = Append(rvisited, decrement(S, cur[2]))
            /\ ret' = dereference(S, decrement(S, cur[2]))
            /\ cur' = [cur EXCEPT ![2] = decrement(S, cur[2])]
            /\ pc' = "rtest"
            /\ UNCHANGED outcome
    /\ UNCHANGED <<heap, list, clears, P, style, orig, visited>>

LoopNext ==
    \/ LoopTest
    \/ LoopKeep
    \/ LoopErase
    \/ LoopDec
    \/ LoopInc
    \/ RBegin
    \/ RTest
    \/ RBody

\* One run of a loop over a freshly constructed list; the program is
\* sequential, so a loop that can take a step takes it.
LoopSpec == LoopInit /\ [][LoopNext]_vars /\ WF_vars(LoopNext)

\* ------------------------------------------------------------ properties
\* The ordinary nodes that are no longer met from head_.
detached_nodes == {n \in Nodes : ~sentinel(S, n) /\ ~attached(S, n)}

\* The forward walk from head_ ends because it met tail_.
forward_reaches_tail ==
    LET f == forward_nodes(S)
    IN  next_ptr(S, IF f = <<>> THEN head_ ELSE f[Len(f)]) = tail_

\* The backward walk from tail_ ends because it met head_.
backward_reaches_head ==
    LET b == backward_nodes(S)
    IN  prev_ptr(S, IF b = <<>> THEN tail_ ELSE b[Len(b)]) = head_

\* C4: after every sequence of push_back/push_front/erase calls (erase on
\* attached elements only), size() is the number of nodes met by following
\* next cells from head_ until tail_, and the number met by following prev
\* cells from tail_ until head_.
C4_SizeCountsNodes ==
    /\ forward_reaches_tail
    /\ backward_reaches_head
    /\ size(S) = Len(forward_nodes(S))
    /\ size(S) = Len(backward_nodes(S))

\* C4 witness: two elements are left after an element was erased.
C4_Witness ==
    /\ clears = 0
    /\ detached_nodes # {}
    /\ size(S) = 2
    /\ Len(forward_nodes(S)) = 2

\* C5: between calls, head_->next leads to the first element (to tail_ when
\* the list is empty), tail_->prev leads to the last element (to head_ when
\* empty), and along the chain from head_ every node's next cell leads to a
\* node whose prev cell leads back, and conversely.
C5_LinksConsistent ==
    LET f     == forward_nodes(S)
        chain == <<head_>> \o f \o <<tail_>>
    IN  /\ forward_reaches_tail
        /\ empty(S) <=> f = <<>>
        /\ begin(S) = chain[2]
        /\ prev_ptr(S, tail_) = chain[Len(chain) - 1]
        /\ \A k \in 1..(Len(chain) - 1) :
              /\ next_ptr(S, chain[k]) = chain[k + 1]
              /\ prev_ptr(S, chain[k + 1]) = chain[k]
        /\ \A k \in 1..Len(f) : ~sentinel(S, f[k])

\* C5 witness: elements pushed after a clear() that left nodes behind, one of
\* them erased again.
C5_Witness ==
    /\ clears = 1
    /\ size(S) = 1
    /\ Cardinality(detached_nodes) = 2
    /\ Len(forward_nodes(S)) = 1

\* C6: the values read going backward from the last element to head_ are the
\* values read going forward from head_ to tail_, reversed.
C6_BackwardIsReverse ==
    values_of(S, backward_nodes(S)) = Reverse(values_of(S, forward_nodes(S)))

\* C6 witness: three elements, pushed at both ends, not in allocation order.
C6_Witness ==
    LET f == forward_nodes(S)
    IN  /\ Len(f) = 3
        /\ f[1] > f[2]
        /\ f[2] < f[3]
        /\ values_of(S, f) = <<value[f[1]], value[f[2]], value[f[3]]>>

\* C3: an iterator parked on the node just before N (an element or head_)
\* when another iterator erases N is left as it is by erase, and its next
\* operator++ lands on the node that followed N, not on N.
C3_ParkedIteratorSkipsErased ==
    [][\A i \in Iterators : \A j \in Iterators \ {i} :
          ((Erase(i) \/ EraseAssign(i)) /\ cur[j] = prev_ptr(S, cur[i]))
            => /\ cur'[j] = cur[j]
               /\ increment(S', cur'[j]) = next_ptr(S, cur[i])
               /\ increment(S', cur'[j]) # cur[i]]_vars

\* C3 witness: iterator i stands on an erased element whose neighbours were
\* elements, iterator j on its predecessor, which now leads past it.
C3_Witness ==
    \E i \in Iterators : \E j \in Iterators \ {i} :
        /\ clears = 0
        /\ cur[i] \in detached_nodes
        /\ cur[j] = prev_ptr(S, cur[i])
        /\ attached(S, cur[j])
        /\ attached(S, next_ptr(S, cur[i]))
        /\ increment(S, cur[j]) = next_ptr(S, cur[i])

\* The forward loop is over.
ForwardDone == pc \in {"rbegin", "rtest", "rbody", "done"}

\* The elements of q the predicate rejects, in the order of q.
kept(q) == SelectSeq(q, LAMBDA n : value[n] \notin P)

IsPrefix(a, b) == Len(a) <= Len(b) /\ a = SubSeq(b, 1, Len(a))

\* C1: a forward traversal that erases the element it stands on and goes on
\* from the iterator erase returns runs through the original elements once
\* each, in order, whatever elements it erases, and leaves exactly the
\* elements it did not erase, in their original order.
C1_ReturnedIteratorTraversal ==
    style = "returned" =>
        /\ outcome = "ok"
        /\ IsPrefix(visited, orig)
        /\ ForwardDone =>
              /\ visited = orig
              /\ forward_nodes(S) = kept(orig)

\* C1 witness: the loop is over on three elements of which it erased the
\* first two and kept the last.
C1_Witness ==
    /\ style = "returned"
    /\ pc = "done"
    /\ Len(orig) = 3
    /\ value[orig[1]] \in P /\ value[orig[2]] \in P /\ value[orig[3]] \notin P
    /\ forward_nodes(S) = <<orig[3]>>

\* The state part of C2.
C2_Inv ==
    style = "discard" =>
        /\ outcome = "ok"
        /\ IsPrefix(visited, orig)
        /\ \A k \in 1..Len(visited) : ~sentinel(S, visited[k])
        /\ ForwardDone =>
              /\ visited = orig
              /\ forward_nodes(S) = kept(orig)
              /\ size(S) = Len(kept(orig))

\* C2: the loop that calls list.erase(it), drops the result and leaves it on
\* the erased node for ++it terminates, runs its body once on each original
\* element in order, never on a sentinel, and leaves exactly the elements
\* that do not satisfy P, in order, with size() their number.
C2_DiscardingLoop == [](C2_Inv) /\ (style = "discard" ~> pc = "done")

\* C2 witness: the loop is over on three elements of which it erased two
\* adjacent ones.
C2_Witness ==
    /\ style = "discard"
    /\ pc = "done"
    /\ Len(orig) = 3
    /\ value[orig[1]] \notin P /\ value[orig[2]] \in P /\ value[orig[3]] \in P
    /\ forward_nodes(S) = <<orig[1]>>
    /\ size(S) = 1

\* C7: a forward traversal that erases every element as it visits it leaves
\* size() = 0 and the two sentinels linked to each other.
C7_EraseAllLeavesEmpty ==
    (ForwardDone /\ \A k \in 1..Len(orig) : value[orig[k]] \in P) =>
        /\ size(S) = 0
        /\ next_ptr(S, head_) = tail_
        /\ prev_ptr(S, tail_) = head_

\* C7 witness: the loop has erased all of MaxLen elements.
C7_Witness ==
    /\ pc = "done"
    /\ Len(orig) = MaxLen
    /\ Len(visited) = MaxLen
    /\ \A k \in 1..Len(orig) : value[orig[k]] \in P

\* The run of main: the list data1!, data2!, data3! and the predicate that
\* selects data1!.
MainRun ==
    /\ values_of(S, orig) = <<"data1!", "data2!", "data3!">>
    /\ P = {"data1!"}

\* C8: on the list data1!, data2!, data3!, the loop that erases data1! when it
\* visits it visits data1!, data2!, data3! in this order; the list is then
\* data2!, data3!, and the reverse traversal yields data3!, data2!.
C8_MainScenario ==
    MainRun =>
        /\ ForwardDone =>
              /\ values_of(S, visited) = <<"data1!", "data2!", "data3!">>
              /\ values_of(S, forward_nodes(S)) = <<"data2!", "data3!">>
        /\ pc = "done" => values_of(S, rvisited) = <<"data3!", "data2!">>

\* C8 witness: main's run is over.
C8_Witness ==
    /\ MainRun
    /\ style = "discard"
    /\ pc = "done"
    /\ Len(rvisited) = 2

\* C9: erase with the iterator on head_ or tail_ fails with an
\* invalid-operation error and leaves size() and every link as they were.
C9_EraseSentinelRejected ==
    [][\A i \in Iterators :
          EraseSentinel(i) =>
              /\ outcome' = "invalid-operation"
              /\ UNCHANGED <<heap, list>>]_vars

\* C10: operator* on an iterator that stands on head_ or tail_ fails with an
\* invalid-state error and returns no value.
C10_DerefSentinelRejected ==
    [][\A i \in Iterators :
          (Deref(i) /\ sentinel(S, cur[i])) =>
              /\ outcome' = "invalid-state"
              /\ ret' = NoValue]_vars

\* C11: front() and back() on an empty list fail with an error and return no
\* value; on a list with elements they return the value of the first and of
\* the last element.
C11_FrontBackFailOnEmpty ==
    [][/\ Front => IF empty(S)
                   THEN outcome' # "ok" /\ ret' = NoValue
                   ELSE ret' = value[forward_nodes(S)[1]]
       /\ Back  => IF empty(S)
                   THEN outcome' # "ok" /\ ret' = NoValue
                   ELSE ret' = value[backward_nodes(S)[1]]]_vars

\* C12: operator++ with the iterator on tail_, and operator-- with the
\* iterator on head_, fail with an invalid-operation error and leave the
\* iterator where it was.
C12_StepPastSentinelRejected ==
    [][\A i \in Iterators :
          (AdvanceAtTail(i) \/ RetreatAtHead(i)) =>
              /\ outcome' = "invalid-operation"
              /\ cur' = cur]_vars

\* C13: erase on an attached element N with neighbours pred and succ
\* overwrites the content of two existing cells, pred's next cell (now succ)
\* and succ's prev cell (now pred), both of which led to N; N's own cells
\* still lead to succ and pred, every other cell keeps its content, and every
\* node keeps the cells it had: no cell is created or replaced.
C13_EraseWritesTwoCells ==
    [][\A i \in Iterators :
          (Erase(i) \/ EraseAssign(i)) =>
              LET node == cur[i]
                  pred == prev_ptr(S, node)
                  succ == next_ptr(S, node)
              IN  /\ next' = next
                  /\ prev' = prev
                  /\ Len(ptr') = Len(ptr)
                  /\ ptr[next[pred]] = node /\ ptr'[next[pred]] = succ
                  /\ ptr[prev[succ]] = node /\ ptr'[prev[succ]] = pred
                  /\ \A r \in DOMAIN ptr \ {next[pred], prev[succ]} :
                        ptr'[r] = ptr[r]
                  /\ ptr'[next[node]] = succ
                  /\ ptr'[prev[node]] = pred]_vars

\* C13 witness: an erased element between two nodes that now lead to each
\* other, its own cells still leading to them, and no cell allocated other
\* than the four of each push.
C13_Witness ==
    \E n \in detached_nodes :
        /\ clears = 0
        /\ Len(ptr) = 2 + 4 * (Len(next) - 2)
        /\ next_ptr(S, prev_ptr(S, n)) = next_ptr(S, n)
        /\ prev_ptr(S, next_ptr(S, n)) = prev_ptr(S, n)
        /\ attached(S, prev_ptr(S, n))
        /\ attached(S, next_ptr(S, n))

\* C14: it = list.erase(it) on an attached element leaves it on the node that
\* followed the element before the call, tail_ when the element was the last,
\* and every erase on an attached element lowers size() by one.
C14_EraseReturnsSuccessor ==
    [][\A i \in Iterators :
          /\ EraseAssign(i) =>
                /\ cur'[i] = next_ptr(S, cur[i])
                /\ cur[i] = prev_ptr(S, tail_) => cur'[i] = tail_
          /\ (Erase(i) \/ EraseAssign(i)) => size(S') = size(S) - 1]_vars

\* C14 witness: the last of several elements was erased and the iterator is
\* on tail_, the node the erased element still leads to.
C14_Witness ==
    \E i \in Iterators : \E n \in detached_nodes :
        /\ clears = 0
        /\ cur[i] = tail_
        /\ next_ptr(S, n) = tail_
        /\ prev_ptr(S, tail_) = prev_ptr(S, n)
        /\ size(S) = Len(next) - 3
        /\ size(S) >= 1

\* C15: an iterator that stands on N when N is erased, through this iterator
\* or another, and is left there, goes with operator++ right after the erase
\* to the node that followed N, and with operator-- to the node that preceded
\* N.
C15_IteratorOnErasedNode ==
    [][\A i \in Iterators : \A j \in Iterators :
          ((Erase(i) \/ EraseAssign(i)) /\ cur[j] = cur[i] /\ cur'[j] = cur[j])
            => /\ increment(S', cur'[j]) = next_ptr(S, cur[i])
               /\ decrement(S', cur'[j]) = prev_ptr(S, cur[i])]_vars

\* C15 witness: both iterators stand on an erased element whose former
\* neighbours are elements still in the list.
C15_Witness ==
    /\ clears = 0
    /\ cur[1] = cur[2]
    /\ cur[1] \in detached_nodes
    /\ attached(S, increment(S, cur[1]))
    /\ attached(S, decrement(S, cur[1]))
    /\ increment(S, decrement(S, cur[1])) = increment(S, cur[1])

\* C16: across push_back, push_front, erase and clear, a node that is in the
\* chain (head_ and tail_ included) keeps the cell objects it holds in next
\* and prev, only their content changes, so that a cell taken from such a
\* node keeps leading to the node's current neighbour.
C16_CellsNeverReplaced ==
    [][\A n \in Nodes :
          (sentinel(S, n) \/ attached(S, n)) =>
              /\ next[n] # NULL =>
                    /\ next'[n] = next[n]
                    /\ ptr'[next[n]] = next_ptr(S', n)
              /\ prev[n] # NULL =>
                    /\ prev'[n] = prev[n]
                    /\ ptr'[prev[n]] = prev_ptr(S', n)]_vars

\* C17: push_back(v) appends a new node holding v to the forward sequence and
\* push_front(v) prepends one; the elements already there keep their order
\* and their values, and size() grows by one.
C17_PushAppendsPrepends ==
    [][\A v \in Range(Data) :
          LET node == Len(next) + 1
          IN  /\ PushBack(v) =>
                    /\ forward_nodes(S') = Append(forward_nodes(S), node)
                    /\ value' = Append(value, v)
                    /\ size(S') = size(S) + 1
              /\ PushFront(v) =>
                    /\ forward_nodes(S') = <<node>> \o forward_nodes(S)
                    /\ value' = Append(value, v)
                    /\ size(S') = size(S) + 1]_vars

\* C17 witness: three elements, the second pushed at the front and the third
\* at the back of the first.
C17_Witness ==
    /\ clears = 0
    /\ forward_nodes(S) = <<4, 3, 5>>
    /\ values_of(S, forward_nodes(S)) = <<Data[2], Data[1], Data[3]>>
    /\ size(S) = 3

\* C18: clear() leaves size() = 0, head_->next leading to tail_ and
\* tail_->prev to head_; the elements that were in the list keep their cells
\* and the content of their cells, hence their links to each other, and none
\* of them is met from head_ or from tail_ any more.
C18_ClearLeavesNodesAlone ==
    [][Clear =>
          /\ size(S') = 0
          /\ head_' = head_ /\ tail_' = tail_
          /\ next_ptr(S', head_) = tail_
          /\ prev_ptr(S', tail_) = head_
          /\ forward_nodes(S') = <<>>
          /\ backward_nodes(S') = <<>>
          /\ \A n \in Range(forward_nodes(S)) :
                /\ next'[n] = next[n]
                /\ prev'[n] = prev[n]
                /\ ptr'[next[n]] = ptr[next[n]]
                /\ ptr'[prev[n]] = ptr[prev[n]]]_vars

\* C18 witness: after clear() on a list of two elements, the two still lead
\* to each other and to the sentinels, which lead to each other.
C18_Witness ==
    \E a \in detached_nodes : \E b \in detached_nodes :
        /\ clears = 1
        /\ size(S) = 0
        /\ Cardinality(detached_nodes) = 2
        /\ next_ptr(S, head_) = tail_ /\ prev_ptr(S, tail_) = head_
        /\ prev_ptr(S, a) = head_ /\ next_ptr(S, a) = b
        /\ prev_ptr(S, b) = a /\ next_ptr(S, b) = tail_

\* C19 as stated: an element met from head_ stops being met only in a step
\* that is erase of that element (pop_back and pop_front call erase), and an
\* element that is not met is never met again.
C19_OnlyEraseDetaches ==
    [][\A n \in Nodes \ {head_, tail_} :
          /\ (attached(S, n) /\ ~attached(S', n)) => S' = erase(S, n).s
          /\ ~attached(S, n) => ~attached(S', n)]_vars

\* C19 amended: an element met from head_ stops being met only in a step that
\* is erase of that element or clear(), and an element that is not met is
\* never met again.
C19_OnlyEraseOrClearDetaches ==
    [][\A n \in Nodes \ {head_, tail_} :
          /\ (attached(S, n) /\ ~attached(S', n)) =>
                (S' = erase(S, n).s \/ S' = clear(S))
          /\ ~attached(S, n) => ~attached(S', n)]_vars

\* C19 witness: the last of three elements was erased, then clear() detached
\* the two that were left, which still lead to each other.
C19_Witness ==
    \E a \in detached_nodes : \E b \in detached_nodes :
      \E c \in detached_nodes :
        /\ clears = 1
        /\ size(S) = 0
        /\ c \notin {a, b}
        /\ prev_ptr(S, a) = head_ /\ next_ptr(S, a) = b
        /\ prev_ptr(S, b) = a /\ next_ptr(S, b) = tail_
        /\ prev_ptr(S, c) = b /\ next_ptr(S, c) = tail_

\* C20: once an element N is erased, no iterator that stands on a node other
\* than N, attached or itself erased, gets to N by operator++ or operator--.
C20_ErasedNodeUnreachable ==
    clears = 0 =>
        \A n \in detached_nodes : \A i \in Iterators :
            cur[i] # n =>
                /\ increment(S, cur[i]) # n
                /\ decrement(S, cur[i]) # n

\* ------------------------------------------------- reference counting
\* std::shared_ptr: a node is destroyed when the last shared_ptr to it goes,
\* and then drops the two cells it holds, which drop the nodes they lead to.
\* F is the set of nodes destroyed so far; roots are the nodes held from
\* outside the heap (head_, tail_, the iterators). A cell that link()
\* replaced is held by no node and is gone.
RECURSIVE release(_, _, _)
release(s, roots, F) ==
    LET live    == (1..Len(s.next)) \ F
        held(n) == \E m \in live : next_ptr(s, m) = n \/ prev_ptr(s, m) = n
        more    == {n \in live \ roots : ~held(n)}
    IN  IF more = {} THEN F ELSE release(s, roots, F \cup more)

\* The nodes whose use count has reached zero.
reclaimed(s, roots) == release(s, roots, {})

\* The nodes the list object and the iterators hold.
held_nodes == {head_, tail_} \cup {cur[i] : i \in Iterators}

\* C21: when no iterator stands on a node that is out of the list, every node
\* that is out of the list (erased, or dropped by clear()) has been
\* destroyed: its use count has reached zero.
C21_UnreferencedNodesReclaimed ==
    (\A i \in Iterators : cur[i] \notin detached_nodes) =>
        detached_nodes \subseteq reclaimed(S, held_nodes)

\* The state part of C22.
C22_Inv ==
    style = "readme" =>
        /\ outcome = "ok"
        /\ IsPrefix(visited, orig)
        /\ \A k \in 1..Len(visited) : ~sentinel(S, visited[k])
        /\ pc = "body" => ~sentinel(S, cur[1])
        /\ ForwardDone =>
              /\ visited = orig
              /\ forward_nodes(S) = kept(orig)
              /\ backward_nodes(S) = Reverse(kept(orig))

\* C22: the loop  for (it = begin(); it != end(); ++it)
\*                    if (P(*it)) { it = list.erase(it); --it; }
\* terminates for every list and every P, evaluates P once on each original
\* element in order, never applies operator* to a sentinel, and leaves
\* exactly the elements that do not satisfy P, in their original order.
C22_ReadmeLoop == [](C22_Inv) /\ (style = "readme" ~> pc = "done")

\* C22 witness: the loop is over on three elements of which it erased the
\* first two, going back to head_ each time.
C22_Witness ==
    /\ style = "readme"
    /\ pc = "done"
    /\ Len(orig) = 3
    /\ value[orig[1]] \in P /\ value[orig[2]] \in P /\ value[orig[3]] \notin P
    /\ visited = orig
    /\ forward_nodes(S) = <<orig[3]>>

\* The link slots cell r is installed in.
holders(r) ==
    {<<n, "next">> : n \in {m \in Nodes : next[m] = r}}
        \cup {<<n, "prev">> : n \in {m \in Nodes : prev[m] = r}}

\* C23: a cell is installed in at most one link slot, of one node, and that
\* node is the one link() made the cell for; every node has a next cell and a
\* prev cell of its own, except tail_ (no next) and head_ (no prev). The
\* cells installed nowhere are those link() has replaced.
C23_CellsOwnedOnce ==
    /\ \A r \in DOMAIN ptr : Cardinality(holders(r)) <= 1
    /\ \A n \in Nodes :
          /\ next[n] = NULL <=> n = tail_
          /\ prev[n] = NULL <=> n = head_
    /\ Cardinality({r \in DOMAIN ptr : holders(r) # {}}) = 2 * Len(next) - 2

\* C23 witness: elements were pushed at both ends and one was erased; some
\* cells were replaced by link() and are installed nowhere.
C23_Witness ==
    /\ clears = 0
    /\ Len(next) = 2 + MaxPush
    /\ detached_nodes # {}
    /\ size(S) >= 1
    /\ begin(S) > prev_ptr(S, tail_)
    /\ \E r \in DOMAIN ptr : holders(r) = {}

\* The nodes operator++ goes through from node n until tail_.
following(s, n) == walk_forward(s, n, Len(s.next))

\* The state part of C24: from an iterator on an element of the list or on
\* head_, operator++ goes through elements of the list only, those that
\* follow its node, in list order, and then reaches tail_.
C24_Inv ==
    clears = 0 =>
        \A j \in Iterators :
            (attached(S, cur[j]) \/ cur[j] = head_) =>
                LET w == following(S, cur[j])
                    f == forward_nodes(S)
                IN  /\ \A k \in 1..Len(w) : attached(S, w[k])
                    /\ next_ptr(S, IF w = <<>> THEN cur[j] ELSE w[Len(w)])
                         = tail_
                    /\ w = SubSeq(f, Len(f) - Len(w) + 1, Len(f))
                    /\ cur[j] # head_ => f[Len(f) - Len(w)] = cur[j]

\* The step part of C24: a push_back, a push_front or an erase of another
\* element changes what follows the iterator's node exactly as it changes
\* the list after that node.
C24_Step ==
    \A j \in Iterators :
        ((attached(S, cur[j]) \/ cur[j] = head_) /\ cur'[j] = cur[j]) =>
            LET old  == following(S, cur[j])
                new  == following(S', cur[j])
                node == Len(next) + 1
            IN  /\ \A v \in Range(Data) :
                      /\ PushBack(v) => new = Append(old, node)
                      /\ PushFront(v) =>
                            new = IF cur[j] = head_ THEN <<node>> \o old
                                  ELSE old
                /\ \A n \in Nodes \ {cur[j]} :
                      (attached(S, n) /\ S' = erase(S, n).s) =>
                          new = SelectSeq(old, LAMBDA m : m # n)

\* C24: an iterator parked on an element or on head_, while elements are
\* pushed and other elements erased through other iterators, still goes
\* with repeated operator++ through exactly the elements that now follow its
\* node, in order, and then to tail_, never through an erased node.
C24_ParkedIteratorFollowsChain == [](C24_Inv) /\ [][C24_Step]_vars

\* C24 witness: an iterator on the first of three elements; the second was
\* erased, and what follows the iterator's node is the third alone.
C24_Witness ==
    \E j \in Iterators : \E n \in detached_nodes :
        /\ clears = 0
        /\ Len(next) = 5
        /\ cur[j] = begin(S)
        /\ attached(S, cur[j])
        /\ prev_ptr(S, n) = cur[j]
        /\ following(S, cur[j]) = <<next_ptr(S, n)>>
        /\ next_ptr(S, n) # tail_

\* Repeated operator++ from node n gets to tail_ in at most k steps, through
\* cells that are all there.
RECURSIVE reaches_tail(_, _, _)
reaches_tail(s, n, k) ==
    IF n = s.tail_ THEN TRUE
    ELSE IF k = 0 \/ next_ptr(s, n) = NULL THEN FALSE
    ELSE reaches_tail(s, next_ptr(s, n), k - 1)

\* Repeated operator-- from node n gets to head_ in at most k steps.
RECURSIVE reaches_head(_, _, _)
reaches_head(s, n, k) ==
    IF n = s.head_ THEN TRUE
    ELSE IF k = 0 \/ prev_ptr(s, n) = NULL THEN FALSE
    ELSE reaches_head(s, prev_ptr(s, n), k - 1)

\* C25: from every node ever linked into the list, in it or out of it
\* (erased, or dropped by clear()), repeated operator++ gets to tail_ and
\* repeated operator-- gets to head_ within as many steps as there are nodes:
\* the links of nodes out of the list form no cycle and none is missing on
\* the way.
C25_StaleLinksReachSentinels ==
    \A n \in Nodes :
        /\ reaches_tail(S, n, Len(next))
        /\ reaches_head(S, n, Len(next))

\* C25 witness: an iterator on an erased element whose next cell leads to
\* another erased element, and one on a third element out of the list, after
\* clear() was called.
C25_Witness ==
    \E i \in Iterators : \E j \in Iterators :
        /\ clears = 1
        /\ cur[i] \in detached_nodes
        /\ increment(S, cur[i]) \in detached_nodes
        /\ decrement(S, increment(S, cur[i])) # cur[i]
        /\ cur[j] \in detached_nodes
        /\ cur[j] \notin {cur[i], increment(S, cur[i])}
        /\ size(S) = 0

\* C26: over push_back, push_front, pop_back, pop_front, clear and erase on
\* elements of the list, an element that is out of the list stays out of it
\* (it is met neither from head_ nor from tail_), keeps its two cells, and
\* the content of these cells is never written again.
C26_DetachedNodesFrozen ==
    [][\A n \in Nodes \ {head_, tail_} :
          ~attached(S, n) =>
              /\ ~attached(S', n)
              /\ n \notin Range(backward_nodes(S'))
              /\ next'[n] = next[n]
              /\ prev'[n] = prev[n]
              /\ ptr'[next[n]] = ptr[next[n]]
              /\ ptr'[prev[n]] = ptr[prev[n]]]_vars

\* C26 witness: two elements dropped together by clear() still lead to each
\* other, and an element pushed afterwards is in the list.
C26_Witness ==
    \E a \in detached_nodes : \E b \in detached_nodes :
        /\ clears = 1
        /\ Cardinality(detached_nodes) = 2
        /\ next_ptr(S, a) = b /\ prev_ptr(S, b) = a
        /\ prev_ptr(S, a) = head_ /\ next_ptr(S, b) = tail_
        /\ size(S) = 1
        /\ begin(S) > b

\* ------------------------------------ the callback iterator of the C version
\* mutable_chain.c: nodes joined by NodeWrapper cells. to is next, from is
\* prev, NodeWrapper::node is ptr, the initial node is head_ and the terminal
\* node tail_; there is no size.

\* link_to_and_from: two new wrappers, installed in a_link->to and
\* a_data->from.
link_to_and_from(s, a_link, a_data) ==
    LET w1 == Len(s.ptr) + 1
        w2 == Len(s.ptr) + 2
    IN  [s EXCEPT !.ptr  = Append(Append(@, a_data), a_link),
                  !.next = [n \in DOMAIN @ |-> IF n = a_link THEN w1 ELSE @[n]],
                  !.prev = [n \in DOMAIN @ |-> IF n = a_data THEN w2 ELSE @[n]]]

\* link_data_remove without the write to successor->from->node.
link_data_remove_to_only(s, a_link) ==
    LET predecessor == prev_ptr(s, a_link)
        successor   == next_ptr(s, a_link)
    IN  set_next_ptr(s, predecessor, successor)

\* link_data_remove: the content of two existing wrappers is overwritten.
link_data_remove(s, a_link) ==
    LET predecessor == prev_ptr(s, a_link)
        successor   == next_ptr(s, a_link)
        s1 == set_next_ptr(s, predecessor, successor)
    IN  set_prev_ptr(s1, successor, predecessor)

\* Node::is_initial / is_terminal.
is_initial(s, n)  == n = s.head_
is_terminal(s, n) == n = s.tail_

\* create_node for each of data, in order.
RECURSIVE create_nodes(_, _)
create_nodes(s, data) ==
    IF data = <<>> THEN s
    ELSE create_nodes(make_node(s, Head(data)), Tail(data))

\* link_to_and_from(k, k + 1) for the nodes k .. last - 1, in order.
RECURSIVE link_chain(_, _, _)
link_chain(s, k, last) ==
    IF k >= last THEN s
    ELSE link_chain(link_to_and_from(s, k, k + 1), k + 1, last)

\* main: the initial node, the data nodes and the terminal node are created,
\* then linked from the initial node to the terminal node.
build_chain(data) ==
    LET s1 == make_node(no_heap, DefaultValue)
        s2 == create_nodes(s1, data)
        s3 == make_node(s2, DefaultValue)
        s4 == [s3 EXCEPT !.head_ = 1, !.tail_ = newest(s3)]
    IN  link_chain(s4, 1, newest(s3))

Directions == {"c_forward", "c_reverse"}

\* link_iterator(a_link, reverse, callback, user_data) is entered with
\* a_link the initial node (forward) or the terminal node (reverse), and a
\* callback that calls link_data_remove on the nodes whose data is in P.
\* Iterator 1 is current, iterator 2 is next_node.
IterInit ==
    \E data \in Inits : \E p \in SUBSET Vals : \E d \in Directions :
        LET s == build_chain(data)
            a_link == IF d = "c_reverse" THEN s.tail_ ELSE s.head_
        IN  /\ Holds(s)
            /\ cur = [i \in Iterators |-> a_link]
            /\ outcome = "ok"
            /\ ret = NoValue
            /\ clears = 0
            /\ pc = "fetch"
            /\ P = p
            /\ style = d
            /\ orig = forward_nodes(s)
            /\ visited = <<>>
            /\ rvisited = <<>>

\* next_node = reverse ? current->from->node : current->to->node, and the
\* test for termination.
IterFetch ==
    /\ Running /\ pc = "fetch"
    /\ LET reverse == style = "c_reverse"
           link_   == IF reverse THEN prev[cur[1]] ELSE next[cur[1]]
           next_node == IF reverse THEN prev_ptr(S, cur[1])
                        ELSE next_ptr(S, cur[1])
       IN  IF link_ = NULL
           THEN /\ outcome' = "SIGSEGV"
                /\ UNCHANGED <<cur, pc>>
           ELSE /\ cur' = [cur EXCEPT ![2] = next_node]
                /\ pc' = IF \/ reverse /\ is_initial(S, next_node)
                            \/ ~reverse /\ is_terminal(S, next_node)
                         THEN "done" ELSE "call"
                /\ UNCHANGED outcome
    /\ UNCHANGED <<heap, list, ret, clears, P, style, orig, visited, rvisited>>

\* callback(next_node, user_data): link_data_remove(node) when the node's
\* data is in P.
IterCallback ==
    /\ Running /\ pc = "call"
    /\ visited' = Append(visited, cur[2])
    /\ ret' = value[cur[2]]
    /\ IF value[cur[2]] \in P
       THEN IF erase_reads_null(S, cur[2])
            THEN /\ outcome' = "SIGSEGV"
                 /\ UNCHANGED <<heap, list, pc>>
            ELSE /\ Install(link_data_remove(S, cur[2]))
                 /\ pc' = "move"
                 /\ UNCHANGED outcome
       ELSE /\ pc' = "move"
            /\ UNCHANGED <<heap, list, outcome>>
    /\ UNCHANGED <<cur, clears, P, style, orig, rvisited>>

\* current = next_node
IterMove ==
    /\ Running /\ pc = "move"
    /\ cur' = [cur EXCEPT ![1] = cur[2]]
    /\ pc' = "fetch"
    /\ UNCHANGED <<heap, list, outcome, ret, clears, P, style, orig, visited,
                   rvisited>>

IterNext ==
    \/ IterFetch
    \/ IterCallback
    \/ IterMove

\* One call of link_iterator on a freshly built chain; the program is
\* sequential, so a call that can take a step takes it.
IterSpec == IterInit /\ [][IterNext]_vars /\ WF_vars(IterNext)

\* The state part of C27.
C27_Inv ==
    style = "c_reverse" =>
        /\ outcome = "ok"
        /\ IsPrefix(visited, Reverse(orig))
        /\ pc = "done" =>
              /\ visited = Reverse(orig)
              /\ is_initial(S, cur[2])
              /\ forward_nodes(S) = kept(orig)
              /\ backward_nodes(S) = Reverse(kept(orig))

\* C27: link_iterator with reverse = true, entered at the terminal node with
\* a callback that removes the node it is given whenever the node's data is
\* in P, passes every original node to the callback once, from the last to
\* the first, and returns when it meets the initial node; the chain is then
\* the nodes that were not removed, in both directions.
C27_ReverseCallbackIteration ==
    [](C27_Inv) /\ (style = "c_reverse" ~> pc = "done")

\* C27 witness: the reverse iteration is over on three nodes of which the
\* callback removed the last two.
C27_Witness ==
    /\ style = "c_reverse"
    /\ pc = "done"
    /\ Len(orig) = 3
    /\ value[orig[3]] \in P /\ value[orig[2]] \in P /\ value[orig[1]] \notin P
    /\ visited = Reverse(orig)
    /\ forward_nodes(S) = <<orig[1]>>

\* ------------------------------------- erasing through a reverse_iterator
\*   for (rit = list.rbegin(); rit != list.rend(); ++rit)
\*       if (P(*rit)) list.erase(std::prev(rit.base()));
\* reverse_iterator is std::reverse_iterator<iterator>: rit.base() is the
\* node after the one *rit yields, *rit is *--tmp for a copy tmp of the base,
\* and ++rit is --base. Iterator 2 is rit.base().

\* MutableList<std::string> list{...};  rit = list.rbegin();
RevInit ==
    \E init \in Inits : \E p \in SUBSET Vals :
        LET s == MutableList_init(no_heap, init)
        IN  /\ Holds(s)
            /\ cur = [i \in Iterators |-> end(s)]
            /\ outcome = "ok"
            /\ ret = NoValue
            /\ clears = 0
            /\ pc = "rev_test"
            /\ P = p
            /\ style = "reverse"
            /\ orig = forward_nodes(s)
            /\ visited = <<>>
            /\ rvisited = <<>>

\* rit != list.rend(): rit.base() != begin()
RevTest ==
    /\ Running /\ pc = "rev_test"
    /\ pc' = IF cur[2] # begin(S) THEN "rev_body" ELSE "rev_done"
    /\ UNCHANGED <<heap, list, cur, outcome, ret, clears, P, style, orig,
                   visited, rvisited>>

\* The loop body: *rit, and list.erase of the node it yields when P holds.
\* With the base on head_, --tmp reads through the empty head_->prev:
\* undefined behaviour, which ends the process or lets the body run on
\* whatever node the read yields.
RevBody ==
    /\ Running /\ pc = "rev_body"
    /\ IF prev[cur[2]] = NULL
       THEN /\ \/ outcome' = "SIGSEGV" /\ UNCHANGED rvisited
               \/ \E g \in Nodes :
                    /\ outcome' = "garbage"
                    /\ rvisited' = Append(rvisited, g)
            /\ UNCHANGED <<heap, list, ret, pc>>
       ELSE LET node == decrement(S, cur[2])
            IN  /\ rvisited' = Append(rvisited, node)
                /\ ret' = dereference(S, node)
                /\ IF dereference(S, node) \notin P
                   THEN /\ pc' = "rev_inc"
                        /\ UNCHANGED <<heap, list, outcome>>
                   ELSE IF erase_reads_null(S, node)
                   THEN /\ outcome' = "SIGSEGV"
                        /\ UNCHANGED <<heap, list, pc>>
                   ELSE /\ Install(erase(S, node).s)
                        /\ pc' = "rev_inc"
                        /\ UNCHANGED outcome
    /\ UNCHANGED <<cur, clears, P, style, orig, visited>>

\* ++rit: --base
RevInc ==
    /\ Running /\ pc = "rev_inc"
    /\ IF prev[cur[2]] = NULL
       THEN /\ outcome' = "SIGSEGV"
            /\ UNCHANGED <<cur, pc>>
       ELSE /\ cur' = [cur EXCEPT ![2] = decrement(S, cur[2])]
            /\ pc' = "rev_test"
            /\ UNCHANGED outcome
    /\ UNCHANGED <<heap, list, ret, clears, P, style, orig, visited, rvisited>>

RevNext ==
    \/ RevTest
    \/ RevBody
    \/ RevInc

\* One run of the reverse loop over a freshly constructed list.
ReverseSpec == RevInit /\ [][RevNext]_vars /\ WF_vars(RevNext)

\* C28: the reverse loop that erases the element *rit yields and then does
\* ++rit runs its body once on each original element, from the last to the
\* first, skipping none, whatever it erases, and leaves the elements it did
\* not erase.
C28_ReverseEraseVisitsAll ==
    /\ outcome = "ok"
    /\ IsPrefix(rvisited, Reverse(orig))
    /\ pc = "rev_done" =>
          /\ rvisited = Reverse(orig)
          /\ forward_nodes(S) = kept(orig)

\* ------------------------------------------------------- construction
\*   MutableList<std::string> list{...};
\*   for (const auto& s : list) ...
\* Nothing is allocated before the constructor runs.
CtorInit ==
    /\ Holds(no_heap)
    /\ cur = [i \in Iterators |-> NULL]
    /\ outcome = "ok"
    /\ ret = NoValue
    /\ clears = 0
    /\ pc = "new"
    /\ P = {}
    /\ style = "ctor"
    /\ orig = <<>>
    /\ visited = <<>>
    /\ rvisited = <<>>

\* MutableList(std::initializer_list<T> init), then the range-based for
\* takes begin().
Construct(init) ==
    /\ Running /\ pc = "new"
    /\ Install(MutableList_init(S, init))
    /\ cur' = [i \in Iterators |-> begin(MutableList_init(S, init))]
    /\ pc' = "walk"
    /\ UNCHANGED <<outcome, ret, clears, P, style, orig, visited, rvisited>>

\* One turn of the range-based for: it != end(), *it, ++it.
CtorWalk ==
    /\ Running /\ pc = "walk"
    /\ IF cur[1] = end(S)
       THEN /\ pc' = "built"
            /\ UNCHANGED <<cur, ret, visited>>
       ELSE /\ visited' = Append(visited, cur[1])
            /\ ret' = dereference(S, cur[1])
            /\ cur' = [cur EXCEPT ![1] = increment(S, cur[1])]
            /\ UNCHANGED pc
    /\ UNCHANGED <<heap, list, outcome, clears, P, style, orig, rvisited>>

CtorNext ==
    \/ \E init \in Inits : Construct(init)
    \/ CtorWalk

CtorSpec == CtorInit /\ [][CtorNext]_vars

\* The step part of C29.
C29_Step ==
    \A init \in Inits :
        Construct(init) =>
            /\ size(S') = Len(init)
            /\ values_of(S', forward_nodes(S')) = init
            /\ values_of(S', backward_nodes(S')) = Reverse(init)

\* C29: a list constructed from an initializer list has size() the length
\* of the list and holds its values in the given order; the traversal from
\* begin() to end() reads them in that order.
C29_InitializerListOrder ==
    /\ [][C29_Step]_vars
    /\ [](pc = "built" =>
            /\ Len(visited) = size(S)
            /\ visited = forward_nodes(S))

\* C29 witness: the traversal of a list constructed from three values, not
\* all different, has read them in the order given.
C29_Witness ==
    /\ pc = "built"
    /\ size(S) = 3
    /\ values_of(S, visited) = <<Data[2], Data[1], Data[2]>>

\* IteratorImpl::operator==: the two iterators hold the same node.
iterator_eq(a, b) == a = b

\* C30: in every state between calls, empty() holds exactly when size() = 0,
\* and exactly when begin() == end(), that is when head_->next leads to
\* tail_; iterators are equal exactly when they hold the same node.
C30_EmptyIffBeginIsEnd ==
    /\ empty(S) <=> size(S) = 0
    /\ size(S) = 0 <=> iterator_eq(begin(S), end(S))
    /\ iterator_eq(begin(S), end(S)) <=> next_ptr(S, head_) = tail_
    /\ \A i \in Iterators : \A j \in Iterators :
          iterator_eq(cur[i], cur[j]) <=> cur[i] = cur[j]

\* C30 witness: the list is empty again after its two elements were erased,
\* with one iterator on end() and the other left on an erased element.
C30_Witness ==
    /\ clears = 0
    /\ Cardinality(detached_nodes) = 2
    /\ empty(S)
    /\ iterator_eq(begin(S), end(S))
    /\ iterator_eq(cur[1], end(S))
    /\ cur[2] \in detached_nodes

\* C31: on the same list and the same attached element, erase_node(n) and
\* erase(iterator on n) leave the same cells, the same links and the same
\* size(); erase returns, in addition, the iterator on n's successor.
C31_EraseNodeIsErase ==
    /\ \A n \in Nodes :
          attached(S, n) =>
              /\ erase_node(S, n) = erase(S, n).s
              /\ erase(S, n).ret = next_ptr(S, n)
    /\ [][\A i \in Iterators :
            EraseNode(i) => /\ S' = erase(S, cur[i]).s
                            /\ size(S') = size(S) - 1
                            /\ ~attached(S', cur[i])]_vars

\* C31 witness: of three elements either call can take the middle one,
\* between two elements, and leaves two.
C31_Witness ==
    /\ clears = 0
    /\ size(S) = 3
    /\ \E i \in Iterators :
          /\ attached(S, cur[i])
          /\ attached(S, prev_ptr(S, cur[i]))
          /\ attached(S, next_ptr(S, cur[i]))
          /\ erase_node(S, cur[i]).size_ = 2

\* ------------------------------------- the chain with direct pointers
\* The alternative the pattern is set against: node->next = other_node, every
\* node storing its two neighbours in plain fields, pnext and pprev, with no
\* Ref cell between.  erase then assigns the fields of the two neighbours.
direct_make_node(d, v) ==
    [d EXCEPT !.pnext = Append(@, NULL),
              !.pprev = Append(@, NULL),
              !.value = Append(@, v)]

\* a->next = b; b->prev = a;
direct_link(d, a, b) ==
    [d EXCEPT !.pnext[a] = b, !.pprev[b] = a]

direct_emplace_back(d, v) ==
    LET d1   == direct_make_node(d, v)
        node == Len(d1.pnext)
        last == d1.pprev[d1.tail_]
        d2   == direct_link(d1, last, node)
        d3   == direct_link(d2, node, d1.tail_)
    IN  [d3 EXCEPT !.size_ = @ + 1]

direct_emplace_front(d, v) ==
    LET d1    == direct_make_node(d, v)
        node  == Len(d1.pnext)
        first == d1.pnext[d1.head_]
        d2    == direct_link(d1, d1.head_, node)
        d3    == direct_link(d2, node, first)
    IN  [d3 EXCEPT !.size_ = @ + 1]

\* pred->next = succ; succ->prev = pred; the erased node keeps its fields.
direct_erase(d, node) ==
    LET pred == d.pprev[node]
        succ == d.pnext[node]
    IN  [s   |-> [d EXCEPT !.pnext[pred] = succ,
                           !.pprev[succ] = pred,
                           !.size_ = @ - 1],
         ret |-> succ]

direct_clear(d) == [direct_link(d, d.head_, d.tail_) EXCEPT !.size_ = 0]

direct_pop_back(d) ==
    IF d.size_ # 0 THEN direct_erase(d, d.pprev[d.tail_]).s ELSE d
direct_pop_front(d) ==
    IF d.size_ # 0 THEN direct_erase(d, d.pnext[d.head_]).s ELSE d

\* The iterator that holds a node and reads its field on every step.
direct_increment(d, n) == d.pnext[n]
direct_decrement(d, n) == d.pprev[n]
direct_front(d) == d.value[d.pnext[d.head_]]
direct_back(d)  == d.value[d.pprev[d.tail_]]

RECURSIVE direct_walk_forward(_, _, _)
direct_walk_forward(d, n, k) ==
    IF k = 0 \/ d.pnext[n] = NULL THEN <<>>
    ELSE LET m == d.pnext[n]
         IN  IF m = d.tail_ THEN <<>>
             ELSE <<m>> \o direct_walk_forward(d, m, k - 1)

RECURSIVE direct_walk_backward(_, _, _)
direct_walk_backward(d, n, k) ==
    IF k = 0 \/ d.pprev[n] = NULL THEN <<>>
    ELSE LET m == d.pprev[n]
         IN  IF m = d.head_ THEN <<>>
             ELSE <<m>> \o direct_walk_backward(d, m, k - 1)

\* What the nodes of the list with cells point at, read through their cells:
\* the chain with direct pointers that stands for the list s.
direct(s) ==
    [pnext |-> [n \in DOMAIN s.next |-> next_ptr(s, n)],
     pprev |-> [n \in DOMAIN s.prev |-> prev_ptr(s, n)],
     value |-> s.value,
     head_ |-> s.head_,
     tail_ |-> s.tail_,
     size_ |-> s.size_]

\* C32: the list with cells and the chain with direct pointers run in step.
\* Every call on the list is matched by the same call on the chain that
\* stands for it (pushes, pops, clear and the three erases), every iterator
\* step and every iterator returned is the same node in both, and so in
\* every state the two give the same traversals from the ends and from every
\* iterator, the same size() and the same front() and back().
C32_Inv ==
    LET d == direct(S)
    IN  /\ direct_walk_forward(d, d.head_, Len(d.pnext)) = forward_nodes(S)
        /\ direct_walk_backward(d, d.tail_, Len(d.pnext)) = backward_nodes(S)
        /\ d.size_ = size(S)
        /\ ~empty(S) => /\ direct_front(d) = front(S)
                        /\ direct_back(d) = back(S)
        /\ \A i \in Iterators :
             /\ direct_walk_forward(d, cur[i], Len(d.pnext))
                    = walk_forward(S, cur[i], Len(next))
             /\ direct_walk_backward(d, cur[i], Len(d.pnext))
                    = walk_backward(S, cur[i], Len(next))

C32_Step ==
    LET d == direct(S)
    IN  /\ \A v \in Vals :
             /\ PushBack(v)  => direct(S') = direct_emplace_back(d, v)
             /\ PushFront(v) => direct(S') = direct_emplace_front(d, v)
        /\ PopBack  => direct(S') = direct_pop_back(d)
        /\ PopFront => direct(S') = direct_pop_front(d)
        /\ Clear    => direct(S') = direct_clear(d)
        /\ \A i \in Iterators :
             /\ Erase(i) => direct(S') = direct_erase(d, cur[i]).s
             /\ EraseAssign(i) =>
                   /\ direct(S') = direct_erase(d, cur[i]).s
                   /\ cur'[i] = direct_erase(d, cur[i]).ret
             /\ EraseNode(i) => direct(S') = direct_erase(d, cur[i]).s
             /\ Advance(i) => cur'[i] = direct_increment(d, cur[i])
             /\ Retreat(i) => cur'[i] = direct_decrement(d, cur[i])
             /\ (Begin(i) \/ End(i) \/ Advance(i) \/ Retreat(i)) =>
                   direct(S') = d

C32_DirectPointersEquivalent == [](C32_Inv) /\ [][C32_Step]_vars

\* C32 witness: elements were pushed at both ends and one was erased while an
\* iterator stayed on it; the other iterator is on an element of the list,
\* and the chain with direct pointers leads from the erased node back to it.
C32_Witness ==
    /\ clears = 0
    /\ size(S) = 2
    /\ value[next_ptr(S, head_)] = Data[2]
    /\ cur[1] \in detached_nodes
    /\ attached(S, cur[2])
    /\ direct_increment(direct(S), cur[1]) = cur[2]
    /\ direct_front(direct(S)) = Data[2]

\* ------------------------- erase in two steps, a reader between the writes
\* erase(pos) taken one write at a time, a second thread traversing the list
\* in between.  pc is here the pair of the two threads' positions; cur[1] is
\* the iterator the writer passes to erase, cur[2] the reader's iterator (the
\* base of its reverse_iterator), orig the elements when erase is called,
\* visited what the reader's forward loop met and rvisited what its reverse
\* loop met.

\* erase with the second write first.
erase_first_write_backward(s, node) ==
    set_prev_ptr(s, next_ptr(s, node), prev_ptr(s, node))

\* pred = node->prev->ptr; succ = node->next->ptr; pred->next->ptr = succ;
erase_first_write(s, node) ==
    set_next_ptr(s, prev_ptr(s, node), next_ptr(s, node))

\* succ->prev->ptr = pred; --size_;  pred and succ were read from the cells of
\* the node, which nothing writes, so reading them again gives the same nodes.
erase_second_write(s, node) ==
    [set_prev_ptr(s, next_ptr(s, node), prev_ptr(s, node))
        EXCEPT !.size_ = @ - 1]

\* MutableList<std::string> list{...}; the writer holds an iterator on one of
\* its elements and is about to call erase; the reader has not started.
SplitInit ==
    \E init \in Inits \ {<<>>} : \E k \in 1..MaxLen :
        LET s == MutableList_init(no_heap, init)
        IN  /\ k <= Len(init)
            /\ Holds(s)
            /\ cur = [i \in Iterators |->
                        IF i = 1 THEN forward_nodes(s)[k] ELSE begin(s)]
            /\ outcome = "ok"
            /\ ret = NoValue
            /\ clears = 0
            /\ pc = [writer |-> "w_call", reader |-> "r_none"]
            /\ P = {}
            /\ style = "split"
            /\ orig = forward_nodes(s)
            /\ visited = <<>>
            /\ rvisited = <<>>

\* writer: pred->next->ptr = succ;
EraseFirstWrite ==
    /\ Running /\ pc.writer = "w_call"
    /\ Install(erase_first_write(S, cur[1]))
    /\ pc' = [pc EXCEPT !.writer = "w_between"]
    /\ UNCHANGED <<cur, outcome, ret, clears, P, style, orig, visited,
                   rvisited>>

\* writer: succ->prev->ptr = pred; --size_; return
EraseSecondWrite ==
    /\ Running /\ pc.writer = "w_between"
    /\ Install(erase_second_write(S, cur[1]))
    /\ pc' = [pc EXCEPT !.writer = "w_done"]
    /\ UNCHANGED <<cur, outcome, ret, clears, P, style, orig, visited,
                   rvisited>>

\* reader, between the two writes: for (auto it = list.begin(); ...
ReaderBegin ==
    /\ Running /\ pc.writer = "w_between" /\ pc.reader = "r_none"
    /\ cur' = [cur EXCEPT ![2] = begin(S)]
    /\ pc' = [pc EXCEPT !.reader = "f_test"]
    /\ UNCHANGED <<heap, list, outcome, ret, clears, P, style, orig, visited,
                   rvisited>>

\* reader, between the two writes: for (auto it = list.rbegin(); ...
ReaderRBegin ==
    /\ Running /\ pc.writer = "w_between" /\ pc.reader = "r_none"
    /\ cur' = [cur EXCEPT ![2] = end(S)]
    /\ pc' = [pc EXCEPT !.reader = "b_test"]
    /\ UNCHANGED <<heap, list, outcome, ret, clears, P, style, orig, visited,
                   rvisited>>

\* reader: it != list.end()
ReaderTest ==
    /\ Running /\ pc.reader = "f_test"
    /\ pc' = [pc EXCEPT !.reader =
                 IF cur[2] # end(S) THEN "f_body" ELSE "r_done"]
    /\ UNCHANGED <<heap, list, cur, outcome, ret, clears, P, style, orig,
                   visited, rvisited>>

\* reader: the body reads *it, then ++it.  On a node without a next cell ++it
\* reads through an empty shared_ptr: undefined behaviour.
ReaderBody ==
    /\ Running /\ pc.reader = "f_body"
    /\ visited' = Append(visited, cur[2])
    /\ ret' = dereference(S, cur[2])
    /\ IF next[cur[2]] = NULL
       THEN /\ outcome' \in {"SIGSEGV", "garbage"}
            /\ UNCHANGED <<cur, pc>>
       ELSE /\ cur' = [cur EXCEPT ![2] = increment(S, cur[2])]
            /\ pc' = [pc EXCEPT !.reader = "f_test"]
            /\ UNCHANGED outcome
    /\ UNCHANGED <<heap, list, clears, P, style, orig, rvisited>>

\* reader: rit != list.rend(), that is rit.base() != begin()
ReaderRTest ==
    /\ Running /\ pc.reader = "b_test"
    /\ pc' = [pc EXCEPT !.reader =
                 IF cur[2] # begin(S) THEN "b_deref" ELSE "r_done"]
    /\ UNCHANGED <<heap, list, cur, outcome, ret, clears, P, style, orig,
                   visited, rvisited>>

\* reader: *rit, the node before the base.  With the base on head_ the read
\* goes through the empty head_->prev: undefined behaviour.
ReaderRDeref ==
    /\ Running /\ pc.reader = "b_deref"
    /\ IF prev[cur[2]] = NULL
       THEN /\ outcome' \in {"SIGSEGV", "garbage"}
            /\ UNCHANGED <<ret, pc, rvisited>>
       ELSE /\ rvisited' = Append(rvisited, decrement(S, cur[2]))
            /\ ret' = dereference(S, decrement(S, cur[2]))
            /\ pc' = [pc EXCEPT !.reader = "b_inc"]
            /\ UNCHANGED outcome
    /\ UNCHANGED <<heap, list, cur, clears, P, style, orig, visited>>

\* reader: ++rit, the base one node back; the link is read again.
ReaderRInc ==
    /\ Running /\ pc.reader = "b_inc"
    /\ IF prev[cur[2]] = NULL
       THEN /\ outcome' \in {"SIGSEGV", "garbage"}
            /\ UNCHANGED <<cur, pc>>
       ELSE /\ cur' = [cur EXCEPT ![2] = decrement(S, cur[2])]
            /\ pc' = [pc EXCEPT !.reader = "b_test"]
            /\ UNCHANGED outcome
    /\ UNCHANGED <<heap, list, ret, clears, P, style, orig, visited,
                   rvisited>>

SplitNext ==
    \/ EraseFirstWrite
    \/ EraseSecondWrite
    \/ ReaderBegin
    \/ ReaderRBegin
    \/ ReaderTest
    \/ ReaderBody
    \/ ReaderRTest
    \/ ReaderRDeref
    \/ ReaderRInc

\* Both threads keep running.
SplitSpec == SplitInit /\ [][SplitNext]_vars /\ WF_vars(SplitNext)

\* C33: between the two writes of erase the forward traversal from head_ has
\* lost the node while the backward traversal from tail_ still has it: the
\* forward sequence is the old one less the node, the backward sequence the
\* whole old one reversed.  From every node the next links still lead to
\* tail_ and the prev links to head_.  A loop the reader starts in that state
\* meets only elements the list had when erase was called, reads through no
\* empty pointer and ends: the forward loop on end(), the reverse loop with
\* its base on begin().
C33_Inv ==
    /\ outcome = "ok"
    /\ pc.writer = "w_between" =>
          /\ cur[1] \notin Range(forward_nodes(S))
          /\ cur[1] \in Range(backward_nodes(S))
          /\ backward_nodes(S) = Reverse(orig)
          /\ Len(forward_nodes(S)) = Len(orig) - 1
          /\ Range(forward_nodes(S)) = Range(orig) \ {cur[1]}
          /\ size(S) = Len(orig)
          /\ \A n \in Nodes : /\ reaches_tail(S, n, Len(next))
                              /\ reaches_head(S, n, Len(next))
    /\ Range(visited) \cup Range(rvisited) \subseteq Range(orig)
    /\ pc.reader = "r_done" =>
          \/ cur[2] = end(S) /\ rvisited = <<>>
          \/ cur[2] = begin(S) /\ visited = <<>>

C33_ReaderBetweenWrites ==
    [](C33_Inv) /\ (pc.reader # "r_none" ~> pc.reader = "r_done")

\* C33 witness: the writer is still between its two writes, and the reader's
\* reverse loop, started and finished there, met the node being erased and
\* every other element, while the forward traversal no longer has the node.
C33_Witness ==
    /\ pc = [writer |-> "w_between", reader |-> "r_done"]
    /\ Len(orig) = 3
    /\ cur[1] = orig[2]
    /\ rvisited = Reverse(orig)
    /\ forward_nodes(S) = <<orig[1], orig[3]>>

\* C34: pop_back() and pop_front() on an empty list change nothing: no cell,
\* no link, size() still 0, head_ and tail_ still linked to each other, and
\* the call returns normally.  On a list with elements pop_back() removes the
\* last and pop_front() the first, the others keep their order, and size()
\* goes down by one.  size() is never below zero.
C34_Inv ==
    /\ size(S) >= 0
    /\ empty(S) => /\ size(S) = 0
                   /\ next_ptr(S, head_) = tail_
                   /\ prev_ptr(S, tail_) = head_

C34_Step ==
    LET f == forward_nodes(S)
    IN  /\ PopBack =>
             /\ outcome' = "ok"
             /\ IF empty(S)
                THEN S' = S
                ELSE /\ forward_nodes(S') = SubSeq(f, 1, Len(f) - 1)
                     /\ backward_nodes(S') = Reverse(forward_nodes(S'))
                     /\ size(S') = size(S) - 1
        /\ PopFront =>
             /\ outcome' = "ok"
             /\ IF empty(S)
                THEN S' = S
                ELSE /\ forward_nodes(S') = SubSeq(f, 2, Len(f))
                     /\ backward_nodes(S') = Reverse(forward_nodes(S'))
                     /\ size(S') = size(S) - 1

C34_PopsStopAtEmpty == [](C34_Inv) /\ [][C34_Step]_vars

\* C34 witness: every element ever pushed is out of the list again, none by
\* clear(), with both iterators left on the end: the list is empty, and the
\* pops that follow find nothing to remove.
C34_Witness ==
    /\ clears = 0
    /\ Len(next) = 2 + MaxPush
    /\ empty(S)
    /\ pop_back(S) = S /\ pop_front(S) = S
    /\ \A i \in Iterators : cur[i] = end(S)

\* ------------------------------------------ the same node erased twice
\* list.erase(it); list.erase(it);  the iterator on an attached element, the
\* second call on the node the first one has just taken out.  The node still
\* has both its cells, so the second call reads through no empty pointer.
\* The run is followed up to the second call.  size_ is a std::size_t: where
\* the model reads -1 the list holds 2^64 - 1.
EraseTwice(i) ==
    /\ Running /\ pc = "idle"
    /\ attached(S, cur[i])
    /\ Install(erase(erase(S, cur[i]).s, cur[i]).s)
    /\ pc' = "erased_twice"
    /\ ret' = NoValue
    /\ UNCHANGED <<cur, outcome, clears, P, style, orig, visited, rvisited>>

TwiceNext ==
    \/ Next
    \/ \E i \in Iterators : EraseTwice(i)

TwiceSpec == Init /\ [][TwiceNext]_vars

\* C37: removing a node a second time, straight after the first, writes into
\* the two cells what they already hold: cells and links are exactly as after
\* the first removal, for erase and for link_data_remove alike.  erase
\* decrements size_ a second time, so size() is one less than the number of
\* elements the traversal meets.
C37_Inv ==
    \A n \in Nodes :
        attached(S, n) =>
            LET once  == erase(S, n).s
                twice == erase(once, n).s
            IN  /\ ~attached(once, n)
                /\ [twice EXCEPT !.size_ = once.size_] = once
                /\ twice.size_ = once.size_ - 1
                /\ size(twice) # Len(forward_nodes(twice))
                /\ link_data_remove(link_data_remove(S, n), n)
                       = link_data_remove(S, n)

C37_Step ==
    \A i \in Iterators :
        EraseTwice(i) =>
            /\ [S' EXCEPT !.size_ = @ + 1] = erase(S, cur[i]).s
            /\ size(S') = size(S) - 2
            /\ Len(forward_nodes(S')) = Len(forward_nodes(S)) - 1
            /\ size(S') = Len(forward_nodes(S')) - 1

C37_SecondEraseOnlyCounts == [](C37_Inv) /\ [][C37_Step]_vars

\* C37 witness: of three elements the middle one was erased twice; the two
\* others are still in the list and size() is 1.
C37_Witness ==
    /\ pc = "erased_twice"
    /\ clears = 0
    /\ Len(forward_nodes(S)) = 2
    /\ backward_nodes(S) = Reverse(forward_nodes(S))
    /\ size(S) = 1
    /\ \E i \in Iterators :
          /\ cur[i] \in detached_nodes
          /\ prev_ptr(S, cur[i]) = forward_nodes(S)[1]
          /\ next_ptr(S, cur[i]) = forward_nodes(S)[2]

\* --------------------------------------------------- two lists, one heap
\* MutableList<std::string> a{...};  then  MutableList<std::string> b(a);  or
\* MutableList<std::string> b(std::move(a));  and calls on a and on b.
\* As in the constructors, the list being constructed is *this, in head_,
\* tail_ and size_, and the list it is constructed from is other.
list_of(s)    == [head_ |-> s.head_, tail_ |-> s.tail_, size_ |-> s.size_]
as_list(s, l) ==
    [s EXCEPT !.head_ = l.head_, !.tail_ = l.tail_, !.size_ = l.size_]

\* A move constructor that moves the three fields and leaves other as it is.
move_construct_leaves_source(src) ==
    [this |-> list_of(src), other |-> src]

\* MutableList(MutableList&& other): the fields of the new list, and other
\* with its heap when the constructor returns.
move_construct(src) ==
    LET s1 == makeSentinel(src)
        h  == newest(s1)
        s2 == makeSentinel(s1)
        t  == newest(s2)
        s3 == link([s2 EXCEPT !.head_ = h, !.tail_ = t], h, t)
    IN  [this |-> list_of(src), other |-> [s3 EXCEPT !.size_ = 0]]

\* A copy constructor that copies the three fields (the member-wise copy).
copy_construct_memberwise(src) ==
    [this |-> list_of(src), other |-> src]

\* MutableList(const MutableList& other): MutableList(), then push_back of
\* every value of other, first to last.
copy_construct(src) ==
    LET built == push_all(MutableList(src),
                          values_of(src, forward_nodes(src)))
    IN  [this |-> list_of(built), other |-> as_list(built, list_of(src))]

Lists == {"this", "other"}
\* The list w with the heap.
View(w) == IF w = "this" THEN S ELSE as_list(S, other)

\* The heap and the fields of list w become s; the other list keeps its
\* fields.
Put(w, s) ==
    /\ next'  = s.next
    /\ prev'  = s.prev
    /\ ptr'   = s.ptr
    /\ value' = s.value
    /\ IF w = "this"
       THEN /\ head_' = s.head_
            /\ tail_' = s.tail_
            /\ size_' = s.size_
            /\ other' = other
       ELSE /\ other' = list_of(s)
            /\ UNCHANGED <<head_, tail_, size_>>

\* The constructor returned r: *this is r.this, other is r.other.
Constructed(r) ==
    /\ next'  = r.other.next
    /\ prev'  = r.other.prev
    /\ ptr'   = r.other.ptr
    /\ value' = r.other.value
    /\ head_' = r.this.head_
    /\ tail_' = r.this.tail_
    /\ size_' = r.this.size_
    /\ other' = list_of(r.other)

\* The initializer lists of list a: the first n values.
TwoInits == {[k \in 1..n |-> Data[k]] : n \in 0..MaxLen}

\* MutableList<std::string> a{...};
TwoInit ==
    \E init \in TwoInits :
        LET s == MutableList_init(no_heap, init)
        IN  /\ Holds(s)
            /\ cur = [i \in Iterators |-> begin(s)]
            /\ outcome = "ok"
            /\ ret = NoValue
            /\ clears = 0
            /\ pc = "one"
            /\ P = {}
            /\ style = "none"
            /\ orig = forward_nodes(s)
            /\ visited = <<>>
            /\ rvisited = <<>>

\* MutableList<std::string> b(std::move(a));
MoveConstruct ==
    /\ Running /\ pc = "one"
    /\ Constructed(move_construct(S))
    /\ pc' = "two"
    /\ style' = "move"
    /\ UNCHANGED <<cur, outcome, ret, clears, P, orig, visited, rvisited>>

\* MutableList<std::string> b(a);
CopyConstruct ==
    /\ Running /\ pc = "one"
    /\ Constructed(copy_construct(S))
    /\ pc' = "two"
    /\ style' = "copy"
    /\ UNCHANGED <<cur, outcome, ret, clears, P, orig, visited, rvisited>>

\* The nodes there are when the constructor has returned.
built_nodes ==
    IF style = "move" THEN Len(orig) + 4 ELSE 2 * Len(orig) + 4

\* w.push_back(v)
TwoPushBack(w, v) ==
    /\ Running /\ pc = "two"
    /\ Len(next) < built_nodes + MaxExtra
    /\ Put(w, emplace_back(View(w), v))
    /\ UNCHANGED <<cur, outcome, ret, clears, loop>>

\* w.push_front(v)
TwoPushFront(w, v) ==
    /\ Running /\ pc = "two"
    /\ Len(next) < built_nodes + MaxExtra
    /\ Put(w, emplace_front(View(w), v))
    /\ UNCHANGED <<cur, outcome, ret, clears, loop>>

\* w.erase(it), it on the k-th element of w
TwoErase(w, k) ==
    /\ Running /\ pc = "two"
    /\ k <= Len(forward_nodes(View(w)))
    /\ Put(w, erase(View(w), forward_nodes(View(w))[k]).s)
    /\ UNCHANGED <<cur, outcome, ret, clears, loop>>

\* w.clear()
TwoClear(w) ==
    /\ Running /\ pc = "two"
    /\ clears < MaxClear
    /\ Put(w, clear(View(w)))
    /\ clears' = clears + 1
    /\ UNCHANGED <<cur, outcome, ret, loop>>

TwoNext ==
    \/ MoveConstruct
    \/ CopyConstruct
    \/ \E w \in Lists : TwoPushBack(w, Data[MaxLen])
    \/ \E w \in Lists : TwoPushFront(w, Data[MaxLen])
    \/ \E w \in Lists : \E k \in 1..(MaxLen + MaxExtra) : TwoErase(w, k)
    \/ \E w \in Lists : TwoClear(w)

TwoSpec == TwoInit /\ [][TwoNext]_vars

\* What a client sees of a list: the nodes and values met first to last and
\* last to first, and size().
seen(s) ==
    [forward  |-> forward_nodes(s),
     backward |-> backward_nodes(s),
     values   |-> values_of(s, forward_nodes(s)),
     size     |-> size(s)]

\* The nodes of a list, sentinels included, and the cells they hold.
nodes_of(s) == {s.head_, s.tail_} \cup Range(forward_nodes(s))
                   \cup Range(backward_nodes(s))
cells_of(s) == {s.next[n] : n \in nodes_of(s)} \cup
               {s.prev[n] : n \in nodes_of(s)}

\* A call on list w.
CallOn(w) ==
    \/ \E v \in Vals : TwoPushBack(w, v) \/ TwoPushFront(w, v)
    \/ \E k \in 1..(MaxLen + MaxExtra) : TwoErase(w, k)
    \/ TwoClear(w)

\* Every call on one list leaves what is seen of the other list as it was.
Frame ==
    /\ CallOn("this")  => seen(View("other"))' = seen(View("other"))
    /\ CallOn("other") => seen(View("this"))'  = seen(View("this"))

\* The two lists have no node in common and no cell in common (but for the
\* empty link of the sentinels), and each is a well-formed list.
Apart ==
    /\ nodes_of(View("this")) \cap nodes_of(View("other")) = {}
    /\ cells_of(View("this")) \cap cells_of(View("other")) \subseteq {NULL}
    /\ \A w \in Lists :
          /\ backward_nodes(View(w)) = Reverse(forward_nodes(View(w)))
          /\ size(View(w)) = Len(forward_nodes(View(w)))

\* C35: move construction gives the new list the nodes, the order and the
\* size the source had; the source is left an empty list of size 0 with a new
\* head_ and a new tail_ linked to each other; the two lists share no node,
\* and pushes, erases and clear() on either leave the other's sequence and
\* size unchanged.
C35_Inv == (pc = "two" /\ style = "move") => Apart

C35_Step ==
    /\ MoveConstruct =>
          /\ seen(S') = seen(S)
          /\ forward_nodes(S') = orig
          /\ other'.size_ = 0
          /\ other'.head_ \notin Nodes /\ other'.tail_ \notin Nodes
          /\ other'.head_ # other'.tail_
          /\ next_ptr(S', other'.head_) = other'.tail_
          /\ prev_ptr(S', other'.tail_) = other'.head_
          /\ forward_nodes(View("other"))' = <<>>
    /\ style = "move" => Frame

C35_MoveLeavesSourceEmpty == [](C35_Inv) /\ [][C35_Step]_vars

\* C35 witness: a list of MaxLen elements was moved from; since then the
\* source was pushed to and the new list lost its middle elements, and the
\* new list still begins and ends with the first and last node of the
\* original.
C35_Witness ==
    /\ pc = "two" /\ style = "move"
    /\ Len(orig) = MaxLen
    /\ size(View("this")) = 2
    /\ forward_nodes(View("this")) = <<orig[1], orig[MaxLen]>>
    /\ size(View("other")) = MaxExtra
    /\ Apart

\* C36: a copy-constructed list has the values and the size of the original
\* in the same order, in nodes and cells of its own; the original is as it
\* was; pushes, erases and clear() on either list leave the forward
\* sequence, the backward sequence and the size of the other unchanged.
C36_Inv == (pc = "two" /\ style = "copy") => Apart

C36_Step ==
    /\ CopyConstruct =>
          /\ seen(S').values = seen(S).values
          /\ seen(S').size = seen(S).size
          /\ seen(View("other"))' = seen(S)
          /\ nodes_of(S') \cap Nodes = {}
    /\ style = "copy" => Frame

C36_CopyIsIndependent == [](C36_Inv) /\ [][C36_Step]_vars

\* C36 witness: a list of MaxLen elements was copied; since then the
\* original was cleared and the copy pushed to at the front, the copy still
\* holding all the values of the original after the new one.
C36_Witness ==
    /\ pc = "two" /\ style = "copy"
    /\ Len(orig) = MaxLen
    /\ clears = 1
    /\ size(View("other")) = 0
    /\ forward_nodes(View("other")) = <<>>
    /\ size(View("this")) = MaxLen + 1
    /\ SubSeq(seen(View("this")).values, 2, MaxLen + 1)
           = [k \in 1..MaxLen |-> Data[k]]

====
